---- MODULE Spec2Model ----
(***************************************************************************)
(* Model of the Leaflet control L.Control.inaflowsviewer                   *)
(* (src/leaflet.inaflowsviewer.js): the frame sequence, the per-key tile   *)
(* layer cache, the host map, the animation position and the autoplay      *)
(* timer, with one action per public method / event handler.               *)
(*                                                                         *)
(* Encodings.  An instant is a number of minutes since 00:00 UTC of day 0. *)
(* A time key 'YYYYMMDDHHMM' is the number day*10000 + hour*100 + minute   *)
(* (the calendar date is kept as a day number).  Opacities are in          *)
(* thousandths (0.5 is 500, 0.001 is 1).  Timer handles are positive       *)
(* integers, 0 is the null handle.                                         *)
(***************************************************************************)
EXTENDS Integers, Sequences, FiniteSets, TLC

VARIABLES
    options,            \* this.options (opacity and modelrun are mutated)
    timestamps,         \* this.timestamps : sequence of time keys
    layersMag,          \* this.layersMag  : time key -> magnitude layer
    layersArr,          \* this.layersArr  : time key -> arrow layer
    mapMag,             \* host map: number of magnitude layer objects mounted, per key
    mapArr,             \* host map: number of arrow layer objects mounted, per key
    animationPosition,  \* this.animationPosition
    animationTimer,     \* this.animationTimer (0 = null)
    hostTimers,         \* timeouts pending in the host event loop
    active,             \* container carries the '-active' class
    controlContainer,   \* this.controlContainer is set
    pendingLoads,       \* load() calls suspended at the await of _getLatestModelrun
    last                \* the handler that ran last: [op, arg, ret]

vars == <<options, timestamps, layersMag, layersArr, mapMag, mapArr,
          animationPosition, animationTimer, hostTimers, active,
          controlContainer, pendingLoads, last>>

(* ------------------------------ bounds -------------------------------- *)
MaxFrames == 3      \* largest options.frames tried
MaxTimers == 2      \* timeouts that may be pending in the host at once
MaxPending == 2     \* load() calls that may be suspended at once
MaxMount == 2       \* layer objects per key counted on the map (saturating)

(* ------------------------- program constants -------------------------- *)
DefaultOpacity == 500        \* options.opacity: 0.5
InitialMagOpacity == 1       \* opacity of a new magnitude layer: 0.001
ArrowsOpacity == 900         \* options.arrowsOpacity: 0.9
StepHours == 3               \* options.stepHours
DefaultFrames == 8           \* options.frames
AUTO == 0                    \* options.modelrun: the sentinel 'auto' (or a falsy value)
NULL == 0                    \* animationTimer: null
UNDEF == -1                  \* JavaScript undefined (an out-of-range array read)

(* ----------------------------- small utils ---------------------------- *)
Range(s) == {s[i] : i \in 1..Len(s)}

Min(a, b) == IF a < b THEN a ELSE b

\* f with key k bound to v
Put(f, k, v) == [x \in (DOMAIN f) \cup {k} |-> IF x = k THEN v ELSE f[x]]

\* number of layer objects mounted for key k
Count(m, k) == IF k \in DOMAIN m THEN m[k] ELSE 0

Empty == [x \in {} |-> 0]

\* an instant from day, hour, minute (Date.UTC)
DateUTC(d, h, m) == (d * 24 + h) * 60 + m
getUTCDay(t) == t \div 1440
getUTCHours(t) == (t \div 60) % 24
getUTCMinutes(t) == t % 60

\* fmtKey: a key string passes through, a Date is formatted from its UTC fields
fmtKey(d) ==
    IF d.type = "string" THEN d.key
    ELSE getUTCDay(d.date) * 10000 + getUTCHours(d.date) * 100 + getUTCMinutes(d.date)

\* _keyToMs: the instant a key denotes
_keyToMs(k) == DateUTC(k \div 10000, (k \div 100) % 100, k % 100)

(* --------------------------- time series ------------------------------ *)
\* _snap3hUTC: the 3-hourly slot chosen from the UTC hour alone
_snap3hUTC(date) ==
    LET h == getUTCHours(date)
        slot == IF h <= 3 THEN 3 ELSE IF h <= 6 THEN 6 ELSE IF h <= 9 THEN 9
                ELSE IF h <= 12 THEN 12 ELSE IF h <= 15 THEN 15
                ELSE IF h <= 18 THEN 18 ELSE IF h <= 21 THEN 21 ELSE 24
        out == DateUTC(getUTCDay(date), slot % 24, 0)
    IN  IF slot = 24 THEN out + 1440 ELSE out

\* mutant of _buildTimes: the loop starts at frames instead of frames - 1
_buildTimes_fromFrames(frames, stepHours, now) ==
    LET end == _snap3hUTC(now)
    IN  [j \in 1..(frames + 1) |->
            [type |-> "date", date |-> end - (frames + 1 - j) * stepHours * 60]]

\* _buildTimes: frames instants ending at the snapped now, stepHours apart, ascending
_buildTimes(frames, stepHours, now) ==
    LET end == _snap3hUTC(now)
    IN  [j \in 1..frames |->
            [type |-> "date", date |-> end - (frames - j) * stepHours * 60]]

\* the loop of _bestStartIndex, from index i downwards
RECURSIVE bestFrom(_, _, _)
bestFrom(t, i, nowMs) ==
    IF i < 0 THEN 0
    ELSE IF _keyToMs(t[i + 1]) <= nowMs THEN i
    ELSE bestFrom(t, i - 1, nowMs)

\* _bestStartIndex: the last frame that is not after now, 0 when there is none
_bestStartIndex(t, nowMs) ==
    IF Len(t) = 0 THEN 0 ELSE bestFrom(t, Len(t) - 1, nowMs)

(* ----------------------------- model run ------------------------------ *)
\* the maximum of a non-empty set of ISO strings (sort().pop())
MaxOf(S) == CHOOSE x \in S : \A y \in S : y <= x

\* mutant of _getLatestModelrun: the last listed run is taken without sorting
_getLatestModelrun_nosort(outcome, now) ==
    IF outcome.kind = "list" /\ Len(outcome.runs) > 0
    THEN fmtKey([type |-> "date", date |-> outcome.runs[Len(outcome.runs)]])
    ELSE getUTCDay(now) * 10000

\* _getLatestModelrun: the newest listed run as a key at minute resolution,
\* or <day>0000 of now when the fetch, the parse or the list fails
_getLatestModelrun(outcome, now) ==
    IF outcome.kind = "list" /\ Len(outcome.runs) > 0
    THEN fmtKey([type |-> "date", date |-> MaxOf(Range(outcome.runs))])
    ELSE getUTCDay(now) * 10000

(* ------------------------------- tiles -------------------------------- *)
\* L.tileLayer(this._urlMag(timeKey), {opacity: 0.001, ...}), not yet on the map
NewMagLayer(st) ==
    [opacity |-> InitialMagOpacity, onMap |-> FALSE, run |-> st.options.modelrun]

\* L.tileLayer(this._urlArr(timeKey), {opacity: arrowsOpacity, ...})
NewArrLayer(st) ==
    [opacity |-> ArrowsOpacity, onMap |-> FALSE, run |-> st.options.modelrun]

\* map.addLayer of one more layer object for key k
AddLayer(m, k) == Put(m, k, Min(Count(m, k) + 1, MaxMount))

\* mutant of ensureMag: a layer is created whether or not the key is cached
ensureMag_always(st, timeKey) ==
    [st EXCEPT !.layersMag = Put(st.layersMag, timeKey,
                                 [NewMagLayer(st) EXCEPT !.onMap = TRUE]),
               !.mapMag = AddLayer(st.mapMag, timeKey)]

\* the magnitude half of _ensureLayers
ensureMag(st, timeKey) ==
    LET created == IF timeKey \in DOMAIN st.layersMag THEN st.layersMag
                   ELSE Put(st.layersMag, timeKey, NewMagLayer(st))
    IN  IF created[timeKey].onMap
        THEN [st EXCEPT !.layersMag = created]
        ELSE [st EXCEPT !.layersMag = [created EXCEPT ![timeKey].onMap = TRUE],
                        !.mapMag = AddLayer(st.mapMag, timeKey)]

\* the arrow half of _ensureLayers
ensureArr(st, timeKey) ==
    IF ~st.options.showArrows THEN st
    ELSE LET created == IF timeKey \in DOMAIN st.layersArr THEN st.layersArr
                        ELSE Put(st.layersArr, timeKey, NewArrLayer(st))
         IN  IF created[timeKey].onMap
             THEN [st EXCEPT !.layersArr = created]
             ELSE [st EXCEPT !.layersArr = [created EXCEPT ![timeKey].onMap = TRUE],
                             !.mapArr = AddLayer(st.mapArr, timeKey)]

\* _ensureLayers: create the key's layers if absent, mount them if unmounted
_ensureLayers(st, timeKey) == ensureArr(ensureMag(st, timeKey), timeKey)

(* ---------------------------- animation ------------------------------- *)
\* mutant of wrapDown: 'pos > len' in place of 'pos >= len'
RECURSIVE wrapDown_gt(_, _)
wrapDown_gt(pos, len) == IF pos > len THEN wrapDown_gt(pos - len, len) ELSE pos

\* while (pos >= len) pos -= len
RECURSIVE wrapDown(_, _)
wrapDown(pos, len) == IF pos >= len THEN wrapDown(pos - len, len) ELSE pos

\* mutant of wrapUp: 'if' in place of 'while', a single addition
wrapUp_once(pos, len) == IF pos < 0 THEN pos + len ELSE pos

\* while (pos < 0) pos += len
RECURSIVE wrapUp(_, _)
wrapUp(pos, len) == IF pos < 0 THEN wrapUp(pos + len, len) ELSE pos

\* this.timestamps[i], undefined outside the array
KeyAt(ts, i) == IF i \in 0..(Len(ts) - 1) THEN ts[i + 1] ELSE UNDEF

\* layer.setOpacity(v) on the cached magnitude layer of key k, if there is one
SetMagOpacity(st, k, v) ==
    IF k # UNDEF /\ k \in DOMAIN st.layersMag
    THEN [st EXCEPT !.layersMag = [st.layersMag EXCEPT ![k].opacity = v]]
    ELSE st

\* mutant of changePosition: the previous frame's layer is not faded out
changePosition_noFade(st, pos, preloadOnly) ==
    LET len == Len(st.timestamps) IN
    IF len = 0 THEN st
    ELSE LET p == wrapUp(wrapDown(pos, len), len)
             nextKey == KeyAt(st.timestamps, p)
             ensured == _ensureLayers(st, nextKey)
             moved == [ensured EXCEPT !.animationPosition = p]
         IN  IF preloadOnly THEN ensured
             ELSE SetMagOpacity(moved, nextKey, st.options.opacity)

\* mutant of changePosition: no early return on an empty sequence, the layers of
\* the key read outside the array (undefined) are ensured
changePosition_noGuard(st, pos, preloadOnly) ==
    LET len == Len(st.timestamps) IN
    IF len = 0 THEN _ensureLayers(st, UNDEF)
    ELSE LET p == wrapUp(wrapDown(pos, len), len)
             prevKey == KeyAt(st.timestamps, st.animationPosition)
             nextKey == KeyAt(st.timestamps, p)
             ensured == _ensureLayers(st, nextKey)
             moved == [ensured EXCEPT !.animationPosition = p]
             faded == SetMagOpacity(moved, prevKey, 0)
         IN  IF preloadOnly THEN ensured
             ELSE SetMagOpacity(faded, nextKey, st.options.opacity)

\* changePosition(pos, preloadOnly)
changePosition(st, pos, preloadOnly) ==
    LET len == Len(st.timestamps) IN
    IF len = 0 THEN st
    ELSE LET p == wrapUp(wrapDown(pos, len), len)
             prevKey == KeyAt(st.timestamps, st.animationPosition)
             nextKey == KeyAt(st.timestamps, p)
             ensured == _ensureLayers(st, nextKey)
             moved == [ensured EXCEPT !.animationPosition = p]
             faded == SetMagOpacity(moved, prevKey, 0)
         IN  IF preloadOnly THEN ensured
             ELSE SetMagOpacity(faded, nextKey, st.options.opacity)

\* mutant of _preload: the preloadOnly argument is left out
_preload_noFlag(st, pos) == changePosition(st, pos, FALSE)

\* _preload(pos)
_preload(st, pos) == changePosition(st, pos, TRUE)

\* showFrame(nextPos): move, then preload the neighbour in the direction of travel
showFrame(st, nextPos) ==
    LET dir == IF nextPos - st.animationPosition > 0 THEN 1 ELSE -1
    IN  _preload(changePosition(st, nextPos, FALSE), nextPos + dir)

\* setOpacity(e): the slider value in percent becomes options.opacity and the
\* opacity of the current frame's magnitude layer
setOpacity(st, value) ==
    LET val == value * 10
        set == [st EXCEPT !.options.opacity = val]
    IN  SetMagOpacity(set, KeyAt(st.timestamps, st.animationPosition), val)

\* the value stop() returns: whether a timer handle was held
stopRet(st) == st.animationTimer # NULL

\* stop(): clearTimeout of the held handle, which is then forgotten
stop(st) ==
    IF st.animationTimer # NULL
    THEN [st EXCEPT !.hostTimers = @ \ {st.animationTimer}, !.animationTimer = NULL]
    ELSE st

\* the handle setTimeout returns: one that no pending timeout carries
FreshTimer(pending) == CHOOSE i \in 1..(Cardinality(pending) + 1) : i \notin pending

\* mutant of play: the frame at the current position is shown again
play_noAdvance(st) ==
    LET shown == showFrame(st, st.animationPosition)
        id == FreshTimer(shown.hostTimers)
    IN  [shown EXCEPT !.animationTimer = id, !.hostTimers = @ \cup {id}]

\* play(): show the next frame, then schedule play() again and keep the handle
play(st) ==
    LET shown == showFrame(st, st.animationPosition + 1)
        id == FreshTimer(shown.hostTimers)
    IN  [shown EXCEPT !.animationTimer = id, !.hostTimers = @ \cup {id}]

\* mutant of playStop: play whatever stop() returned
playStop_noToggle(st) == play(stop(st))

\* playStop(): play unless stop() cancelled something
playStop(st) == IF stopRet(st) THEN stop(st) ELSE play(stop(st))

\* prev(e)
prev(st) == showFrame(stop(st), stop(st).animationPosition - 1)

\* next(e)
next(st) == showFrame(stop(st), stop(st).animationPosition + 1)

(* ----------------------------- lifecycle ------------------------------ *)
\* map.hasLayer(l) && map.removeLayer(l) for every layer of the cache
RemoveLayers(m, cache) ==
    LET left(k) == IF k \in DOMAIN cache /\ cache[k].onMap THEN m[k] - 1 ELSE m[k]
    IN  [k \in {x \in DOMAIN m : left(x) > 0} |-> left(k)]

\* mutant of unload: the model run goes back to 'auto' when the session ends
unload_resetRun(st) ==
    LET s == stop(st)
    IN  [s EXCEPT !.controlContainer = FALSE,
                  !.active = FALSE,
                  !.mapMag = RemoveLayers(s.mapMag, s.layersMag),
                  !.mapArr = RemoveLayers(s.mapArr, s.layersArr),
                  !.layersMag = Empty,
                  !.layersArr = Empty,
                  !.timestamps = << >>,
                  !.animationPosition = 0,
                  !.options.modelrun = AUTO]

\* unload(): stop, remove the UI, unmount and forget every layer, reset the sequence
unload(st) ==
    LET s == stop(st)
    IN  [s EXCEPT !.controlContainer = FALSE,
                  !.active = FALSE,
                  !.mapMag = RemoveLayers(s.mapMag, s.layersMag),
                  !.mapArr = RemoveLayers(s.mapArr, s.layersArr),
                  !.layersMag = Empty,
                  !.layersArr = Empty,
                  !.timestamps = << >>,
                  !.animationPosition = 0]

\* _buildUI(): a new control container, with the buttons and the sliders
buildUI(st) == [st EXCEPT !.controlContainer = TRUE]

\* load() from step 2 on: the sequence, the start index, the UI, the first frame
loadBody(st, now) ==
    LET o == st.options
        dates == IF Len(o.times) = 0
                 THEN _buildTimes(o.frames, o.stepHours, now)
                 ELSE o.times
        ts == [j \in 1..Len(dates) |-> fmtKey(dates[j])]
        start == _bestStartIndex(ts, now)
        s1 == [st EXCEPT !.timestamps = ts, !.animationPosition = start, !.active = TRUE]
        s2 == buildUI(s1)
        s3 == showFrame(s2, s2.animationPosition)
    IN  _preload(s3, s3.animationPosition + 1)

\* load() step 1: whether the model run has to be resolved first
needsResolve(st) ==
    st.options.autoModelrun /\ st.options.modelrun = AUTO

(* ------------------------------ inputs -------------------------------- *)
\* arguments tried for showFrame, changePosition and _preload: in range, just
\* outside the range, and further than twice the length away on both sides
\* (the position slider adds every index in range)
PosInputs == {-(2 * MaxFrames + 2), -1, 0, MaxFrames, 2 * MaxFrames + 1}

\* values of the opacity slider tried (percent)
OpacityInputs == {0, 50}

\* readings of the clock tried: 02:30 and 03:20 UTC of day 1 (both snap to 03:00,
\* which is after the first and before the second)
NowChoices == {DateUTC(1, 2, 30), DateUTC(1, 3, 20)}

\* an explicitly configured model run
ExplicitRun == fmtKey([type |-> "date", date |-> DateUTC(0, 6, 0)])

\* externally supplied options.times: keys and Dates mixed, with a repeated key
MixedTimes ==
    << [type |-> "string", key |-> 10000],
       [type |-> "date", date |-> DateUTC(1, 6, 0)],
       [type |-> "string", key |-> 10000] >>

\* externally supplied options.times: keys in the future of every clock reading
FutureTimes ==
    << [type |-> "string", key |-> 30000],
       [type |-> "string", key |-> 30300] >>

\* the configurations tried.  With an explicit model run: a built series of
\* 0..MaxFrames frames with arrows, and the mixed list without arrows.  With an
\* automatic model run: the defaults (built series, arrows) on a series of one
\* frame, and the future list without arrows.  (options.frames is not read when
\* a list is supplied and keeps its default.)
ConfigChoices ==
    {[times |-> << >>, frames |-> f, showArrows |-> TRUE, modelrun |-> ExplicitRun] :
        f \in 0..MaxFrames}
    \cup {[times |-> MixedTimes, frames |-> DefaultFrames, showArrows |-> FALSE,
           modelrun |-> ExplicitRun]}
    \cup {[times |-> << >>, frames |-> 1, showArrows |-> TRUE, modelrun |-> AUTO]}
    \cup {[times |-> FutureTimes, frames |-> DefaultFrames, showArrows |-> FALSE,
           modelrun |-> AUTO]}

\* what the fetch of the run list can come to
FetchOutcomes ==
    { [kind |-> "reject", runs |-> << >>],
      [kind |-> "badjson", runs |-> << >>],
      [kind |-> "nokey", runs |-> << >>],
      [kind |-> "list", runs |-> << >>],
      [kind |-> "list", runs |-> << DateUTC(0, 12, 0), DateUTC(0, 0, 0) >>] }

(* ------------------------------- state -------------------------------- *)
\* the control and its host as one record, for the handlers above
St ==
    [options |-> options, timestamps |-> timestamps,
     layersMag |-> layersMag, layersArr |-> layersArr,
     mapMag |-> mapMag, mapArr |-> mapArr,
     animationPosition |-> animationPosition, animationTimer |-> animationTimer,
     hostTimers |-> hostTimers, active |-> active,
     controlContainer |-> controlContainer]

Commit(st) ==
    /\ options' = st.options
    /\ timestamps' = st.timestamps
    /\ layersMag' = st.layersMag
    /\ layersArr' = st.layersArr
    /\ mapMag' = st.mapMag
    /\ mapArr' = st.mapArr
    /\ animationPosition' = st.animationPosition
    /\ animationTimer' = st.animationTimer
    /\ hostTimers' = st.hostTimers
    /\ active' = st.active
    /\ controlContainer' = st.controlContainer

Did(op, arg, ret) == last' = [op |-> op, arg |-> arg, ret |-> ret]

\* onAdd: empty sequence and caches, position 0, no timer; options as configured
Init ==
    /\ \E c \in ConfigChoices :
         options = [opacity |-> DefaultOpacity, modelrun |-> c.modelrun,
                    autoModelrun |-> TRUE, times |-> c.times, frames |-> c.frames,
                    stepHours |-> StepHours, showArrows |-> c.showArrows]
    /\ timestamps = << >>
    /\ layersMag = Empty
    /\ layersArr = Empty
    /\ mapMag = Empty
    /\ mapArr = Empty
    /\ animationPosition = 0
    /\ animationTimer = NULL
    /\ hostTimers = {}
    /\ active = FALSE
    /\ controlContainer = FALSE
    /\ pendingLoads = 0
    /\ last = [op |-> "onAdd", arg |-> 0, ret |-> "undefined"]

(* ------------------------------ actions ------------------------------- *)
\* load(): suspends at the await when the run must be resolved, else runs through
Load ==
    IF needsResolve(St)
    THEN /\ pendingLoads < MaxPending
         /\ pendingLoads' = pendingLoads + 1
         /\ Commit(St)
         /\ Did("load", 0, "pending")
    ELSE /\ \E now \in NowChoices : Commit(loadBody(St, now))
         /\ UNCHANGED pendingLoads
         /\ Did("load", 0, "done")

\* a suspended load() resumes with the resolved run
LoadResume ==
    /\ pendingLoads > 0
    /\ pendingLoads' = pendingLoads - 1
    /\ \E now \in NowChoices, outcome \in FetchOutcomes :
         Commit(loadBody([St EXCEPT !.options.modelrun =
                                       _getLatestModelrun(outcome, now)], now))
    /\ Did("load", 0, "resumed")

Unload ==
    /\ Commit(unload(St))
    /\ UNCHANGED pendingLoads
    /\ Did("unload", 0, "undefined")

Stop ==
    /\ Commit(stop(St))
    /\ UNCHANGED pendingLoads
    /\ Did("stop", 0, IF stopRet(St) THEN "true" ELSE "false")

Play ==
    /\ Cardinality(hostTimers) < MaxTimers
    /\ Commit(play(St))
    /\ UNCHANGED pendingLoads
    /\ Did("play", 0, "undefined")

\* the timeout set by play() fires: the host drops it and calls play()
Tick ==
    \E t \in hostTimers :
        /\ Commit(play([St EXCEPT !.hostTimers = @ \ {t}]))
        /\ UNCHANGED pendingLoads
        /\ Did("tick", 0, "undefined")

\* startstop(e) -> playStop()
PlayStop ==
    /\ stopRet(St) \/ Cardinality(hostTimers) < MaxTimers
    /\ Commit(playStop(St))
    /\ UNCHANGED pendingLoads
    /\ Did("playStop", 0, "undefined")

Prev ==
    /\ Commit(prev(St))
    /\ UNCHANGED pendingLoads
    /\ Did("prev", 0, "undefined")

Next_ ==
    /\ Commit(next(St))
    /\ UNCHANGED pendingLoads
    /\ Did("next", 0, "undefined")

ShowFrame ==
    \E k \in PosInputs :
        /\ Commit(showFrame(St, k))
        /\ UNCHANGED pendingLoads
        /\ Did("showFrame", k, "undefined")

\* setPosition(e): the position slider, built with the range 0..length-1 (on an
\* empty sequence the range is 0..-1 and the slider holds its minimum, 0)
SetPosition ==
    /\ controlContainer
    /\ \E v \in (IF Len(timestamps) = 0 THEN {0} ELSE 0..(Len(timestamps) - 1)) :
        /\ Commit(showFrame(St, v))
        /\ UNCHANGED pendingLoads
        /\ Did("setPosition", v, "undefined")

ChangePosition ==
    \E k \in PosInputs :
        /\ Commit(changePosition(St, k, FALSE))
        /\ UNCHANGED pendingLoads
        /\ Did("changePosition", k, "undefined")

Preload ==
    \E k \in PosInputs :
        /\ Commit(_preload(St, k))
        /\ UNCHANGED pendingLoads
        /\ Did("_preload", k, "undefined")

EnsureLayers ==
    \E key \in Range(timestamps) :
        /\ Commit(_ensureLayers(St, key))
        /\ UNCHANGED pendingLoads
        /\ Did("_ensureLayers", key, "undefined")

SetOpacity ==
    /\ controlContainer
    /\ \E v \in OpacityInputs :
        /\ Commit(setOpacity(St, v))
        /\ UNCHANGED pendingLoads
        /\ Did("setOpacity", v, "undefined")

Next ==
    \/ Load
    \/ LoadResume
    \/ Unload
    \/ Stop
    \/ Play
    \/ Tick
    \/ PlayStop
    \/ Prev
    \/ Next_
    \/ ShowFrame
    \/ SetPosition
    \/ ChangePosition
    \/ Preload
    \/ EnsureLayers
    \/ SetOpacity

Spec == Init /\ [][Next]_vars

(* ============================== claims ================================ *)
\* the remainder operator of JavaScript (the sign follows the dividend)
JsMod(a, n) == IF a >= 0 THEN a % n ELSE -((-a) % n)

\* ((k mod N) + N) mod N
Wrapped(k, n) == JsMod(JsMod(k, n) + n, n)

\* the step just taken called showFrame
IsShowFrame == last'.op \in {"showFrame", "setPosition", "prev", "next", "play", "tick"}

\* the argument showFrame was called with in the step just taken
ShowArg ==
    IF last'.op \in {"showFrame", "setPosition"} THEN last'.arg
    ELSE IF last'.op = "prev" THEN animationPosition - 1
    ELSE animationPosition + 1

\* the key of the frame at the current position
CurKey == KeyAt(timestamps, animationPosition)

\* magnitude layers at an opacity above the near-zero one they are created with
Visible(cache) == {k \in DOMAIN cache : cache[k].opacity > InitialMagOpacity}

C2_ChangePositionWraps ==
    [][(last'.op = "changePosition" /\ Len(timestamps) >= 1)
        => /\ animationPosition' \in 0..(Len(timestamps) - 1)
           /\ animationPosition' = Wrapped(last'.arg, Len(timestamps))]_vars

\* C2 witness: changePosition was called more than twice the length below zero
C2_Witness ==
    /\ last.op = "changePosition"
    /\ Len(timestamps) = MaxFrames
    /\ last.arg < -2 * Len(timestamps)
    /\ animationPosition = Wrapped(last.arg, Len(timestamps))
    /\ animationPosition # 0

(* ---- C3 ---- *)
\* C3: a changePosition call with preloadOnly (that is, _preload), for any index
\* and in any state, leaves animationPosition and the opacity of every cached
\* magnitude layer unchanged; it only creates and mounts the target key's layers.
C3_PreloadOnlyEnsures ==
    [][(last'.op = "_preload")
        => LET n == Len(timestamps)
               target == IF n = 0 THEN UNDEF ELSE KeyAt(timestamps, Wrapped(last'.arg, n))
           IN  /\ animationPosition' = animationPosition
               /\ UNCHANGED <<options, timestamps, animationTimer, hostTimers, active>>
               /\ \A k \in DOMAIN layersMag :
                      /\ k \in DOMAIN layersMag'
                      /\ layersMag'[k].opacity = layersMag[k].opacity
               /\ DOMAIN layersMag' \subseteq DOMAIN layersMag \cup {target}
               /\ DOMAIN layersArr' \subseteq DOMAIN layersArr \cup {target}
               /\ \A k \in DOMAIN layersMag' \ {target} : layersMag'[k] = layersMag[k]
               /\ \A k \in DOMAIN layersArr' \ {target} : layersArr'[k] = layersArr[k]
               /\ \A k \in (DOMAIN mapMag' \cup DOMAIN mapMag) \ {target} :
                      Count(mapMag', k) = Count(mapMag, k)
               /\ \A k \in (DOMAIN mapArr' \cup DOMAIN mapArr) \ {target} :
                      Count(mapArr', k) = Count(mapArr, k)
               /\ n > 0 => /\ target \in DOMAIN layersMag'
                           /\ layersMag'[target].onMap]_vars

\* C3 witness: _preload was called with an index outside the range and its target
\* sits mounted at the creation opacity next to the visible frame
C3_Witness ==
    /\ last.op = "_preload"
    /\ Len(timestamps) = MaxFrames
    /\ last.arg \notin 0..(Len(timestamps) - 1)
    /\ LET target == KeyAt(timestamps, Wrapped(last.arg, Len(timestamps)))
       IN  /\ target # CurKey
           /\ target \in DOMAIN layersMag
           /\ layersMag[target].opacity = InitialMagOpacity
           /\ layersMag[target].onMap
    /\ CurKey \in DOMAIN layersMag
    /\ layersMag[CurKey].opacity = DefaultOpacity

(* ---- C4 ---- *)
\* C4: at most one autoplay timer is pending at any time, under any sequence of
\* play, stop, playStop, prev, next, setPosition, unload and timer ticks; play()
\* called while a timer handle is held neither advances the position nor
\* schedules a second timer.
C4_AtMostOneTimer ==
    /\ Cardinality(hostTimers) <= 1
    /\ animationTimer # NULL => hostTimers = {animationTimer}

(* ---- C5 ---- *)
\* C5: unload() stops any running autoplay timer before it releases the layers:
\* no timer is pending once unload() returns, so that no autoplay callback fires
\* after the layers are unmounted and the cache is cleared.
C5_NoTimerAfterUnload ==
    [][(last'.op = "unload") => (animationTimer' = NULL /\ hostTimers' = {})]_vars

(* ---- C6 ---- *)
\* C6: playStop() is a pure toggle of the play state: after every playStop() the
\* controller is Playing (holds a timer handle) iff it was Stopped before the call.
C6_PlayStopToggles ==
    [][(last'.op = "playStop")
        => ((animationTimer' # NULL) <=> (animationTimer = NULL))]_vars

\* C6 witness: playStop() was called twice in a row and left the controller Playing
\* the second time, on a loaded sequence
C6_Witness ==
    /\ last.op = "playStop"
    /\ animationTimer # NULL
    /\ animationTimer \in hostTimers
    /\ Len(timestamps) > 0
    /\ animationPosition # _bestStartIndex(timestamps, DateUTC(1, 2, 30))
    /\ animationPosition # _bestStartIndex(timestamps, DateUTC(1, 3, 20))

(* ---- C7 ---- *)
\* C7: stop() returns true exactly when a timer was pending, and cancels it; in
\* the Stopped state it returns false and changes nothing; after stop() returns
\* no previously scheduled autoplay tick ever fires (none is left pending).
C7_StopCancelsEveryTimer ==
    [][(last'.op = "stop")
        => /\ (last'.ret = "true") <=> (hostTimers # {})
           /\ hostTimers' = {}
           /\ animationTimer' = NULL
           /\ UNCHANGED <<options, timestamps, layersMag, layersArr, mapMag, mapArr,
                          animationPosition, active>>]_vars

(* ---- C8 ---- *)
\* the key's layers of every enabled kind are cached and mounted
Ensured(k) ==
    /\ k \in DOMAIN layersMag /\ layersMag[k].onMap
    /\ options.showArrows => (k \in DOMAIN layersArr /\ layersArr[k].onMap)

\* the map holds exactly the mounted layers of the cache, one object per key
OneHandlePerKey(m, cache) ==
    /\ DOMAIN m \subseteq DOMAIN cache
    /\ \A k \in DOMAIN cache : Count(m, k) = IF cache[k].onMap THEN 1 ELSE 0

\* C8: layer creation is idempotent: _ensureLayers on a key whose layers are
\* cached and mounted mounts nothing, creates no second layer object and leaves
\* the layers (their opacity too) as they are; hence at most one layer handle
\* exists per (timeKey, kind) at any time of a session.
C8_EnsureIdempotent ==
    /\ [](OneHandlePerKey(mapMag, layersMag) /\ OneHandlePerKey(mapArr, layersArr))
    /\ [][(last'.op = "_ensureLayers" /\ Ensured(last'.arg))
            => UNCHANGED <<layersMag, layersArr, mapMag, mapArr>>]_vars
    /\ [][(last'.op = "_ensureLayers")
            => /\ last'.arg \in DOMAIN layersMag' /\ layersMag'[last'.arg].onMap
               /\ _ensureLayers(St', last'.arg) = St']_vars

\* C8 witness: _ensureLayers was called on the key of the visible frame, whose
\* layer existed before (it is at the configured opacity, not the creation one)
C8_Witness ==
    /\ last.op = "_ensureLayers"
    /\ last.arg = CurKey
    /\ Ensured(last.arg)
    /\ layersMag[last.arg].opacity = DefaultOpacity
    /\ Count(mapMag, last.arg) = 1
    /\ Count(mapArr, last.arg) = 1

(* ---- C9 ---- *)
\* C9: manual navigation interrupts autoplay: after prev() or next(), from Playing
\* or Stopped, the controller is Stopped with no timer pending, and the position
\* has moved by exactly -1 (prev) or +1 (next) modulo the sequence length.
C9_NavigationStopsAutoplay ==
    [][(last'.op \in {"prev", "next"})
        => /\ animationTimer' = NULL
           /\ hostTimers' = {}
           /\ Len(timestamps) > 0 =>
                animationPosition' =
                    Wrapped(animationPosition + (IF last'.op = "prev" THEN -1 ELSE 1),
                            Len(timestamps))]_vars

(* ---- C10 ---- *)
\* C10: whenever the frame sequence is non-empty, animationPosition is an index
\* into it: 0 <= animationPosition < timestamps.length.
C10_PositionInRange ==
    Len(timestamps) > 0 => animationPosition \in 0..(Len(timestamps) - 1)

\* C10 witness: showFrame was called with an index at or past the end of a loaded
\* sequence of more than one frame, and the position is inside the sequence
C10_Witness ==
    /\ last.op = "showFrame"
    /\ Len(timestamps) > 1
    /\ last.arg >= Len(timestamps)
    /\ animationPosition \in 1..(Len(timestamps) - 1)

(* =================== single calls on a fresh control =================== *)
\* the control's fields, without the record of the last call
ctl == <<options, timestamps, layersMag, layersArr, mapMag, mapArr,
         animationPosition, animationTimer, hostTimers, active,
         controlContainer, pendingLoads>>

\* the control right after onAdd, configured as c
onAdd(c) ==
    /\ options = [opacity |-> DefaultOpacity, modelrun |-> c.modelrun,
                  autoModelrun |-> TRUE, times |-> c.times, frames |-> c.frames,
                  stepHours |-> StepHours, showArrows |-> c.showArrows]
    /\ timestamps = << >>
    /\ layersMag = Empty
    /\ layersArr = Empty
    /\ mapMag = Empty
    /\ mapArr = Empty
    /\ animationPosition = 0
    /\ animationTimer = NULL
    /\ hostTimers = {}
    /\ active = FALSE
    /\ controlContainer = FALSE
    /\ pendingLoads = 0

(* ---- C11 ---- *)
\* days of the clock readings tried for single calls
MaxDay == 3

\* readings of the clock at the time the model run is resolved (from day 1 on:
\* the key of 00:00 of day 0 is the number that stands for 'auto')
ResolveNows ==
    {DateUTC(d, h, m) : d \in 1..MaxDay, h \in {0, 2, 23}, m \in {0, 59}}

\* what the fetch can come to: the outcomes above, a list whose newest run is
\* last, and a list of one run that is not on a full hour
ResolveOutcomes ==
    FetchOutcomes
    \cup { [kind |-> "list", runs |-> << DateUTC(0, 12, 0), DateUTC(1, 0, 0) >>],
           [kind |-> "list", runs |-> << DateUTC(2, 23, 59) >>] }

\* a control configured with the 'auto' model run, and a fetch about to be made
InitResolve ==
    /\ \E c \in {x \in ConfigChoices : x.modelrun = AUTO} : onAdd(c)
    /\ \E outcome \in ResolveOutcomes, now \in ResolveNows :
         last = [op |-> "fetch", arg |-> [outcome |-> outcome, now |-> now],
                 ret |-> "pending"]

\* load() as a whole: the run is resolved from the fetch, then the body runs
LoadResolved ==
    /\ last.op = "fetch"
    /\ needsResolve(St)
    /\ LET run == _getLatestModelrun(last.arg.outcome, last.arg.now)
       IN  Commit(loadBody([St EXCEPT !.options.modelrun = run], last.arg.now))
    /\ UNCHANGED pendingLoads
    /\ last' = [op |-> "load", arg |-> last.arg, ret |-> "done"]

\* the loaded control is closed again
UnloadResolved ==
    /\ last.op = "load"
    /\ Commit(unload(St))
    /\ UNCHANGED pendingLoads
    /\ last' = [op |-> "unload", arg |-> last.arg, ret |-> "undefined"]

NextResolve == LoadResolved \/ UnloadResolved

SpecResolve == InitResolve /\ [][NextResolve]_vars

\* C11: model-run resolution never fails.  For every fetch outcome load()
\* proceeds with a run id: on a non-empty list the minute-resolution key of the
\* greatest listed timestamp, on every failure (rejection, parse error, missing
\* key, empty list) the fallback <UTC date>0000 of the instant of resolution;
\* the sequence is then built and its start frame shown.
C11_ResolutionNeverFails ==
    [][(last'.op = "load")
        => LET o == last'.arg.outcome
               run == options'.modelrun
           IN  /\ run # AUTO
               /\ (o.kind = "list" /\ Len(o.runs) > 0)
                    => /\ _keyToMs(run) \in Range(o.runs)
                       /\ \A r \in Range(o.runs) : r <= _keyToMs(run)
                       /\ run = (_keyToMs(run) \div 1440) * 10000
                                  + ((_keyToMs(run) \div 60) % 24) * 100
                                  + (_keyToMs(run) % 60)
               /\ ~(o.kind = "list" /\ Len(o.runs) > 0)
                    => /\ run % 10000 = 0
                       /\ run \div 10000 = last'.arg.now \div 1440
               /\ active' /\ controlContainer'
               /\ Len(timestamps') > 0
                    => /\ KeyAt(timestamps', animationPosition') \in DOMAIN layersMag'
                       /\ layersMag'[KeyAt(timestamps', animationPosition')].run = run
                       /\ layersMag'[KeyAt(timestamps', animationPosition')].opacity
                            = options'.opacity]_vars

\* C11 witness: the fetch was rejected late on day 1 and load() went on with the
\* fallback run of day 1, a frame shown
C11_Witness ==
    /\ last.op = "load"
    /\ last.arg.outcome.kind = "reject"
    /\ last.arg.now = DateUTC(1, 23, 59)
    /\ options.modelrun = 10000
    /\ active
    /\ Len(timestamps) > 0
    /\ CurKey \in DOMAIN layersMag
    /\ layersMag[CurKey].opacity = DefaultOpacity

(* ---- C12, C16 ---- *)
\* the control as configured by default, for calls that read none of its fields
Defaults ==
    [times |-> << >>, frames |-> DefaultFrames, showArrows |-> TRUE, modelrun |-> AUTO]

\* every instant of the days tried: each hour and each minute
Instants == {DateUTC(d, h, m) : d \in 1..MaxDay, h \in 0..23, m \in 0..59}

\* a fresh control and an instant about to be snapped
InitSnap ==
    /\ onAdd(Defaults)
    /\ \E x \in Instants : last = [op |-> "Date", arg |-> x, ret |-> x]

\* _snap3hUTC(date) is called on the instant at hand: the one drawn at first,
\* afterwards the result of the call before
Snap ==
    /\ last' = [op |-> "_snap3hUTC", arg |-> last.ret, ret |-> _snap3hUTC(last.ret)]
    /\ UNCHANGED ctl

NextSnap == Snap

SpecSnap == InitSnap /\ [][NextSnap]_vars

\* C12: snapToCadence is idempotent: for every UTC instant x (every day, hour
\* 0..23 and minute 0..59), snapping the result of _snap3hUTC(x) again yields
\* the same instant.
C12_SnapIdempotent ==
    [][(last'.op = "_snap3hUTC" /\ last.op = "_snap3hUTC") => last'.ret = last.ret]_vars

\* a cadence boundary: a full hour that is a multiple of 3 (00:00 included)
IsBoundary(t) == t % (StepHours * 60) = 0

\* C16: snapToCadence rounds up: for every UTC instant x the result is the
\* earliest cadence boundary (hour a multiple of 3, minute 0, the end of the day
\* being 00:00 of the next day) that is not earlier than x; so it is never
\* earlier than x, and an instant on a boundary (00:00 too) snaps to itself.
C16_SnapRoundsUp ==
    [][(last'.op = "_snap3hUTC")
        => /\ IsBoundary(last'.ret)
           /\ last'.ret >= last'.arg
           /\ \A b \in (last'.arg)..(last'.ret) : IsBoundary(b) => b = last'.ret
           /\ IsBoundary(last'.arg) => last'.ret = last'.arg]_vars

(* ---- C13 ---- *)
\* largest options.stepHours tried
MaxStep == 3

\* readings of the clock at the time the series is built
BuildNows == {DateUTC(d, h, m) : d \in 1..MaxDay, h \in {0, 3, 11, 22}, m \in {0, 30}}

\* a fresh control, and the options and the clock the series will be built from
InitBuild ==
    /\ onAdd(Defaults)
    /\ \E f \in 0..MaxFrames, s \in 1..MaxStep, now \in BuildNows :
         last = [op |-> "options",
                 arg |-> [frames |-> f, stepHours |-> s, now |-> now],
                 ret |-> << >>]

\* load() step 2 on an empty options.times: _buildTimes(...).map(fmtKey)
BuildTimes ==
    /\ last.op = "options"
    /\ LET dates == _buildTimes(last.arg.frames, last.arg.stepHours, last.arg.now)
       IN  last' = [op |-> "_buildTimes", arg |-> last.arg,
                    ret |-> [j \in 1..Len(dates) |-> fmtKey(dates[j])]]
    /\ UNCHANGED ctl

NextBuild == BuildTimes

SpecBuild == InitBuild /\ [][NextBuild]_vars

\* C13: for all frameCount >= 1 and cadenceHours >= 1 the built sequence has
\* exactly frameCount keys, strictly ascending and pairwise distinct, consecutive
\* keys exactly cadenceHours apart, the last key that of the snapped anchor;
\* frameCount = 0 yields the empty sequence.
C13_BuiltSequence ==
    [][(last'.op = "_buildTimes")
        => LET keys == last'.ret
               f == last'.arg.frames
               s == last'.arg.stepHours
           IN  /\ Len(keys) = f
               /\ f = 0 => keys = << >>
               /\ \A i, j \in 1..Len(keys) : i < j => keys[i] < keys[j]
               /\ \A i \in 1..(Len(keys) - 1) :
                      _keyToMs(keys[i + 1]) - _keyToMs(keys[i]) = s * 60
               /\ f >= 1 => _keyToMs(keys[f]) = _snap3hUTC(last'.arg.now)]_vars

\* C13 witness: a series of the most frames tried was built late in the day, so
\* that it ends at 00:00 of the next day and its keys span two days
C13_Witness ==
    /\ last.op = "_buildTimes"
    /\ Len(last.ret) = MaxFrames
    /\ last.arg.stepHours > 1
    /\ getUTCHours(last.arg.now) = 22
    /\ last.ret[Len(last.ret)] % 10000 = 0
    /\ last.ret[1] \div 10000 < last.ret[Len(last.ret)] \div 10000

(* ---- C14 ---- *)
\* C14: with an empty frame sequence every position-changing operation
\* (changePosition, showFrame, setPosition, prev, next, a play tick, preload)
\* returns leaving animationPosition, the layer cache and the set of mounted
\* layers unchanged (and the sequence empty).
C14_EmptySequenceNoOp ==
    [][(/\ Len(timestamps) = 0
        /\ last'.op \in {"changePosition", "showFrame", "setPosition", "prev", "next",
                         "tick", "play", "_preload"})
        => /\ UNCHANGED <<animationPosition, layersMag, layersArr, mapMag, mapArr>>
           /\ timestamps' = << >>
           /\ animationPosition' = 0
           /\ layersMag' = Empty /\ layersArr' = Empty
           /\ mapMag' = Empty /\ mapArr' = Empty]_vars

\* C14 witness: a control loaded with no frames is playing and a tick has fired
C14_Witness ==
    /\ last.op = "tick"
    /\ active
    /\ controlContainer
    /\ Len(timestamps) = 0
    /\ animationTimer # NULL
    /\ animationPosition = 0
    /\ layersMag = Empty

(* ---- C15 ---- *)
\* a control with an explicit model run and a built series of up to one frame
\* more than above, so that a load leaves frames of the series uncached
InitShow ==
    /\ \E f \in 1..(MaxFrames + 1) :
         onAdd([times |-> << >>, frames |-> f, showArrows |-> TRUE,
                modelrun |-> ExplicitRun])
    /\ last = [op |-> "onAdd", arg |-> 0, ret |-> "undefined"]

\* the control is opened, frames are shown by index and it is closed again
NextShow ==
    \/ Load
    \/ ShowFrame
    \/ SetPosition
    \/ Unload

SpecShow == InitShow /\ [][NextShow]_vars

\* C15: showFrame(target) commits the visible change to target and then
\* prefetches target + direction, where direction is the sign of
\* target - position before the move and is forward (+1) when target equals the
\* current position: so showFrame on the current position ensures the layer of
\* frame (position + 1) mod N, and showFrame with target < position ensures
\* frame (target - 1) mod N.
C15_PrefetchDirection ==
    [][(last'.op \in {"showFrame", "setPosition"} /\ Len(timestamps) > 0)
        => LET n == Len(timestamps)
               target == last'.arg
               dir == IF target - animationPosition >= 0 THEN 1 ELSE -1
               ahead == KeyAt(timestamps, Wrapped(target + dir, n))
           IN  /\ animationPosition' = Wrapped(target, n)
               /\ layersMag'[KeyAt(timestamps, Wrapped(target, n))].opacity
                    = options.opacity
               /\ ahead \in DOMAIN layersMag'
               /\ layersMag'[ahead].onMap]_vars

(* ---- C17 ---- *)
\* the control is opened and closed only: calls of load(), the resumption of
\* suspended ones, and calls of unload(), in any order
NextSession ==
    \/ Load
    \/ LoadResume
    \/ Unload

\* the configurations above, and with the 'auto' model run also a built series
\* of every length tried and the mixed list
SessionConfigs ==
    ConfigChoices
    \cup {[times |-> << >>, frames |-> f, showArrows |-> TRUE, modelrun |-> AUTO] :
            f \in 0..MaxFrames}
    \cup {[times |-> MixedTimes, frames |-> DefaultFrames, showArrows |-> FALSE,
           modelrun |-> AUTO]}

InitSession ==
    /\ \E c \in SessionConfigs : onAdd(c)
    /\ last = [op |-> "onAdd", arg |-> 0, ret |-> "undefined"]

SpecSession == InitSession /\ [][NextSession]_vars

\* nothing of a session is left: no cached layer, no mounted layer, no frame,
\* the control inactive
Released ==
    /\ layersMag = Empty /\ layersArr = Empty
    /\ mapMag = Empty /\ mapArr = Empty
    /\ timestamps = << >>
    /\ ~active

\* the step just taken is a call of load() (not the resumption of an earlier one)
LoadInvoked == last'.op = "load" /\ last'.ret \in {"pending", "done"}

\* C17: no entity outlives its session: once unload() has returned and no later
\* load() is invoked, the layer cache stays empty, no tile layer stays or becomes
\* mounted, the frame sequence stays empty and the control stays inactive, for
\* every interleaving of load(), its asynchronous resolution and unload()
\* (unload() during a pending load() included).  (Where only load() and
\* unload() are called, the step after unload() is a call of load() or the
\* resumption of a suspended one.)
C17_NothingOutlivesSession ==
    /\ [][(last'.op = "unload") => Released']_vars
    /\ [][(last.op = "unload" /\ ~LoadInvoked) => Released']_vars

(* ---- C18 ---- *)
\* C18: the model run is held constant for a loaded session: in every reachable
\* state all cached layers, magnitude and arrow, were built with one and the same
\* run id, the current options.modelrun, also when load() is invoked again
\* before an earlier resolution completes and the two resolve differently.
C18_OneRunPerSession ==
    /\ \A k \in DOMAIN layersMag : layersMag[k].run = options.modelrun
    /\ \A k \in DOMAIN layersArr : layersArr[k].run = options.modelrun

(* ---- C19 ---- *)
\* load() is called once, on the closed control
OpenOnce ==
    /\ ~active
    /\ pendingLoads = 0
    /\ Load

\* autoplay left alone: the control is opened once, play() is called, the
\* timeouts fire; no stop(), prev(), next() or unload()
NextPlay ==
    \/ OpenOnce
    \/ LoadResume
    \/ Play
    \/ Tick

\* a timeout is pending on a sequence of two frames or more, where a tick always
\* moves the position (on a shorter one it may leave the state as it is)
TickDue == Len(timestamps) >= 2 /\ hostTimers # {}

\* the host delivers a pending timeout in the end: weak fairness of the ticks
\* that are due, WF_vars(TickDue /\ Tick), written out as 'not always due from
\* some point on, or ticks again and again'
SpecPlay ==
    /\ Init /\ [][NextPlay]_vars
    /\ ([]<>(~TickDue) \/ []<><<last'.op = "tick">>_vars)

\* frame i is the visible one
VisibleAt(i) ==
    /\ animationPosition = i
    /\ KeyAt(timestamps, i) \in DOMAIN layersMag
    /\ layersMag[KeyAt(timestamps, i)].opacity = options.opacity

\* C19: autoplay loops continuously: while the controller is Playing on a
\* sequence of N >= 1 frames and no stop, prev, next or unload occurs, each timer
\* tick advances the position by exactly +1 modulo N (from N-1 to 0) and
\* reschedules; so, timeouts being delivered, every frame index in [0, N)
\* becomes the visible position again and again.
C19_AutoplayLoops ==
    /\ [][(last'.op = "tick" /\ Len(timestamps) >= 1)
            => /\ animationPosition' = (animationPosition + 1) % Len(timestamps)
               /\ animationTimer' # NULL
               /\ animationTimer' \in hostTimers']_vars
    /\ \A i \in 0..(MaxFrames - 1) :
           (animationTimer # NULL /\ i < Len(timestamps)) ~> VisibleAt(i)

\* C19 witness: a tick has wrapped the position from the last frame of the
\* longest sequence to frame 0, whose layer is shown while the last frame's is
\* faded out, and the next tick is scheduled
C19_Witness ==
    /\ last.op = "tick"
    /\ Len(timestamps) = MaxFrames
    /\ VisibleAt(0)
    /\ KeyAt(timestamps, MaxFrames - 1) \in DOMAIN layersMag
    /\ layersMag[KeyAt(timestamps, MaxFrames - 1)].opacity = 0
    /\ animationTimer \in hostTimers

(* ---- C20 ---- *)
\* C20: model-run resolution is performed at most once over the lifetime of a
\* control used sequentially (no load() while another is pending): once
\* options.modelrun holds a resolved id, no later step changes it and no later
\* load(), after an unload() or not, suspends for a fetch.
C20_ResolvedOncePerControl ==
    [][(options.modelrun # AUTO /\ pendingLoads = 0)
        => /\ options'.modelrun = options.modelrun
           /\ pendingLoads' = 0
           /\ last'.op = "load" => last'.ret = "done"]_vars

\* C20 witness: a control configured with 'auto' has been opened again by a
\* load() that ran through without a fetch, on the run resolved earlier
C20_Witness ==
    /\ last.op = "load"
    /\ last.ret = "done"
    /\ options.modelrun \notin {AUTO, ExplicitRun}
    /\ pendingLoads = 0
    /\ active
    /\ Len(timestamps) > 0
    /\ \A k \in DOMAIN layersMag :
           /\ layersMag[k].run = options.modelrun
           /\ layersMag[k].opacity \in {InitialMagOpacity, DefaultOpacity}

====
